---------------------------- MODULE Spec2Model ----------------------------
(***************************************************************************)
(* A model of yumwiz.py: the ingredient-line parser, the recipe block      *)
(* extractor, the JSON cache and the command line driver.                  *)
(*                                                                         *)
(* Text is modelled by TLA+ strings (sequences of characters); a Python    *)
(* regular expression is modelled by operators that walk the string the    *)
(* way the backtracking matcher does.  None is the empty sequence <<>> and *)
(* a present optional value x is <<x>>.  A Fraction is a record            *)
(* [num, den] in lowest terms with den > 0.  The result of a call is       *)
(* [raised |-> the exception's name or "", value |-> <<the value>>,        *)
(*  stdout |-> the lines printed].                                         *)
(*                                                                         *)
(* A local of the Python code that is read several times is a parameter of *)
(* the operator that models the code after its assignment.                 *)
(***************************************************************************)
EXTENDS Integers, Sequences, FiniteSets, TLC

VARIABLES
    pc,       \* the operation that was the last step ("call" before any)
    text,     \* the text argument of the pure function under test
    ret,      \* the result of the pure function under test
    blocks,   \* the recipe blocks the document under test is laid out from
    recipes,  \* the recipe lists handed to dump_json, by file name
    fs,       \* the file system: path -> file
    run       \* the record of the run of main that was the last step

vars == <<pc, text, ret, blocks, recipes, fs, run>>

(***************************************************************************)
(* Bounds of the model.                                                    *)
(***************************************************************************)
MaxFracLen == 4
MaxLineLen == 4
MaxBlockLines == 2
MaxBlocks == 2
MaxRecipes == 1
MaxIngredients == 2

(***************************************************************************)
(* Strings.                                                                *)
(***************************************************************************)
None == <<>>
Some(x) == <<x>>

MinOf(S) == CHOOSE x \in S : \A y \in S : x <= y
MaxOf(S) == CHOOSE x \in S : \A y \in S : x >= y

\* s[a-1:b] of Python: the characters a..b (1-based), clipped to the string.
Sub(s, a, b) ==
    IF (IF a < 1 THEN 1 ELSE a) > (IF b > Len(s) THEN Len(s) ELSE b) THEN ""
    ELSE SubSeq(s, IF a < 1 THEN 1 ELSE a, IF b > Len(s) THEN Len(s) ELSE b)
Char(s, i) == IF 1 <= i /\ i <= Len(s) THEN SubSeq(s, i, i) ELSE ""
From(s, i) == IF i > Len(s) THEN "" ELSE SubSeq(s, i, Len(s))
DigitChars == {"0", "1", "2", "3", "4", "5", "6", "7", "8", "9"}
IsDigit(c) == c \in DigitChars
DigitVal(c) == CHOOSE v \in 0..9 : SubSeq("0123456789", v + 1, v + 1) = c
WhiteSpace == {" ", "\t", "\n", "\r"}
IsSpace(c) == c \in WhiteSpace

StartsWithAt(s, i, p) ==
    i >= 1 /\ i + Len(p) - 1 <= Len(s) /\ SubSeq(s, i, i + Len(p) - 1) = p
StartsWith(s, p) == StartsWithAt(s, 1, p)
Contains(s, p) == \E i \in 1..(Len(s) - Len(p) + 1) : StartsWithAt(s, i, p)

\* The length of the longest run of characters satisfying P that starts at i.
RunLen(s, i, P(_)) == MinOf({j \in i..(Len(s) + 1) : ~P(Char(s, j))}) - i

RECURSIVE StrToInt(_)
StrToInt(s) ==
    IF s = "" THEN 0
    ELSE StrToInt(SubSeq(s, 1, Len(s) - 1)) * 10 + DigitVal(SubSeq(s, Len(s), Len(s)))

RECURSIVE IntToStr(_)
IntToStr(n) ==
    IF n < 10 THEN SubSeq("0123456789", n + 1, n + 1)
    ELSE IntToStr(n \div 10) \o SubSeq("0123456789", (n % 10) + 1, (n % 10) + 1)

RECURSIVE Pow10(_)
Pow10(k) == IF k = 0 THEN 1 ELSE 10 * Pow10(k - 1)

\* str.strip()
RECURSIVE LStrip(_)
LStrip(s) == IF s # "" /\ IsSpace(Char(s, 1)) THEN LStrip(Tail(s)) ELSE s
RECURSIVE RStrip(_)
RStrip(s) ==
    IF s # "" /\ IsSpace(Char(s, Len(s))) THEN RStrip(SubSeq(s, 1, Len(s) - 1))
    ELSE s
Strip(s) == RStrip(LStrip(s))

\* The sequences of a sequence, one after the other.
RECURSIVE Flatten(_)
Flatten(ss) == IF ss = <<>> THEN <<>> ELSE Head(ss) \o Flatten(Tail(ss))

\* All strings of at most n characters of the alphabet.
RECURSIVE StringsUpTo(_, _)
StringsUpTo(alphabet, n) ==
    IF n = 0 THEN {""}
    ELSE StringsUpTo(alphabet, n - 1)
         \cup {s \o c : s \in StringsUpTo(alphabet, n - 1), c \in alphabet}

(***************************************************************************)
(* Results of calls.                                                       *)
(***************************************************************************)
Returned(v) == [raised |-> "", value |-> Some(v), stdout |-> <<>>]
Raised(e) == [raised |-> e, value |-> None, stdout |-> <<>>]
NotCalled == [raised |-> "", value |-> None, stdout |-> <<>>]

(***************************************************************************)
(* fractions.Fraction                                                      *)
(***************************************************************************)
RECURSIVE GCD(_, _)
GCD(a, b) == IF b = 0 THEN a ELSE GCD(b, a % b)

\* Fraction(n, d) for n >= 0 and d > 0: lowest terms.
Frac(n, d) == [num |-> n \div GCD(n, d), den |-> d \div GCD(n, d)]
FracAdd(a, b) == Frac(a.num * b.den + b.num * a.den, a.den * b.den)

\* Fraction(string): optional whitespace, then digits "/" digits, digits,
\* digits "." digits* or "." digits, then optional whitespace; anything else
\* is a ValueError.  (The texts of the model hold no sign, underscore or
\* exponent.)  s is the stripped string, k the length of its leading digits,
\* sep the character after them, m the length of the digits after sep.
FractionValue(s, k, sep, m) ==
    IF s = "" \/ k + m = 0 THEN Raised("ValueError")
    ELSE IF sep = "/"
    THEN IF k = 0 \/ m = 0 \/ k + 1 + m # Len(s) THEN Raised("ValueError")
         ELSE IF StrToInt(Sub(s, k + 2, k + 1 + m)) = 0 THEN Raised("ZeroDivisionError")
         ELSE Returned(Frac(StrToInt(Sub(s, 1, k)), StrToInt(Sub(s, k + 2, k + 1 + m))))
    ELSE IF sep = "."
    THEN IF k + 1 + m # Len(s) THEN Raised("ValueError")
         ELSE Returned(FracAdd(Frac(StrToInt(Sub(s, 1, k)), 1),
                               Frac(StrToInt(Sub(s, k + 2, k + 1 + m)), Pow10(m))))
    ELSE IF k # Len(s) THEN Raised("ValueError")
    ELSE Returned(Frac(StrToInt(s), 1))

FractionDigits(s, k) ==
    FractionValue(s, k, Char(s, k + 1),
                  IF Char(s, k + 1) \in {"/", "."} THEN RunLen(s, k + 2, IsDigit) ELSE 0)

FractionOfString(string) ==
    FractionDigits(Strip(string), RunLen(Strip(string), 1, IsDigit))

(***************************************************************************)
(* to_fraction                                                             *)
(***************************************************************************)
\* "\d/\d" at position i.
SimpleFractionAt(s, i) ==
    IsDigit(Char(s, i)) /\ Char(s, i + 1) = "/" /\ IsDigit(Char(s, i + 2))

\* "(\d+\s)?" before "\d/\d", at position i where k digits start: the length
\* of the whole-number part with its blank, 0 when the group takes no part
\* in the match.
WholeLenOf(s, i, k) ==
    IF k >= 1 /\ IsSpace(Char(s, i + k)) /\ SimpleFractionAt(s, i + k + 1)
    THEN k + 1 ELSE 0
WholeLenAt(s, i) == WholeLenOf(s, i, RunLen(s, i, IsDigit))

\* re.search(r"(\d+\s)?(\d)/(\d)", string): the positions where it matches.
FractionMatches(s) ==
    {i \in 1..Len(s) : WholeLenAt(s, i) > 0 \/ SimpleFractionAt(s, i)}

\* quantity = whole + frac
MixedValue(whole, n, d) ==
    IF d = 0 THEN Raised("ZeroDivisionError")
    ELSE Returned(FracAdd(Frac(whole, 1), Frac(n, d)))

\* The match at position i whose whole-number part has length w.
MixedFraction(string, i, w) ==
    MixedValue(IF w > 0 THEN StrToInt(Sub(string, i, i + w - 2)) ELSE 0,
               DigitVal(Char(string, i + w)),
               DigitVal(Char(string, i + w + 2)))

ToFractionOf(string, found) ==
    IF found # {}
    THEN MixedFraction(string, MinOf(found), WholeLenAt(string, MinOf(found)))
    ELSE FractionOfString(string)

to_fraction(string) == ToFractionOf(string, FractionMatches(string))

(***************************************************************************)
(* replace_vulgar_fractions: NFKD normalisation, then each decomposed      *)
(* vulgar fraction replaced by its ASCII spelling.  Of the glyphs of the   *)
(* table the model's texts use the Latin-1 ones; NFKD leaves every other   *)
(* character of the model's alphabets as it is.                            *)
(***************************************************************************)
VulgarChar(c) ==
    CASE c = "¼" -> "1/4"
      [] c = "½" -> "1/2"
      [] c = "¾" -> "3/4"
      [] OTHER -> c

RECURSIVE replace_vulgar_fractions(_)
replace_vulgar_fractions(t) ==
    IF t = "" THEN ""
    ELSE VulgarChar(Char(t, 1)) \o replace_vulgar_fractions(Tail(t))

(***************************************************************************)
(* str.lower() and str.splitlines()                                        *)
(***************************************************************************)
UpperLetters == "ABCDEFGHIJKLMNOPQRSTUVWXYZ"
LowerLetters == "abcdefghijklmnopqrstuvwxyz"
IsUpper(c) == \E i \in 1..Len(UpperLetters) : SubSeq(UpperLetters, i, i) = c
LowerChar(c) ==
    IF IsUpper(c)
    THEN Char(LowerLetters,
              CHOOSE i \in 1..Len(UpperLetters) : SubSeq(UpperLetters, i, i) = c)
    ELSE c

RECURSIVE Lower(_)
Lower(s) == IF s = "" THEN "" ELSE LowerChar(Char(s, 1)) \o Lower(Tail(s))

IsNotNewline(c) == c # "\n" /\ c # ""

RECURSIVE SplitLines(_)
SplitLines(t) ==
    IF t = "" THEN <<>>
    ELSE <<Sub(t, 1, RunLen(t, 1, IsNotNewline))>>
         \o SplitLines(From(t, RunLen(t, 1, IsNotNewline) + 2))

(***************************************************************************)
(* should_ignore, should_keep, LineAction.from_line                        *)
(***************************************************************************)
should_ignore(line) == StartsWith(line, "get step by step")

\* re.search(r"pinch|handful|salt|(?:(?:freshly cracked black )?pepper)",
\*           line, re.IGNORECASE), l being the line in lower case
KeepPatternAt(l, i) ==
    \/ StartsWithAt(l, i, "pinch")
    \/ StartsWithAt(l, i, "handful")
    \/ StartsWithAt(l, i, "salt")
    \/ StartsWithAt(l, i, "freshly cracked black pepper")
    \/ StartsWithAt(l, i, "pepper")

KeepPatternIn(l) == \E i \in 1..Len(l) : KeepPatternAt(l, i)
should_keep(line) == KeepPatternIn(Lower(line))

\* from_line with the keep keywords looked for before the boilerplate phrase.
from_line_keep_first(line) ==
    IF IsDigit(Char(line, 1)) THEN "KEEP"
    ELSE IF should_keep(line) THEN "KEEP"
    ELSE IF should_ignore(line) THEN "IGNORE"
    ELSE "IGNORE"

from_line(line) ==
    IF IsDigit(Char(line, 1)) THEN "KEEP"
    ELSE IF should_ignore(line) THEN "IGNORE"
    ELSE IF should_keep(line) THEN "KEEP"
    ELSE "IGNORE"

(***************************************************************************)
(* extract_ingredient_lines                                                *)
(***************************************************************************)
\* One turn of the loop: the ingredients after a line of the given action.
\* COMBINE appends to the last kept line (an IndexError when there is none).
ExtractAction(ingredients, line, action) ==
    IF action = "KEEP" THEN Returned(Append(ingredients, line))
    ELSE IF action = "COMBINE"
    THEN IF ingredients = <<>> THEN Raised("IndexError")
         ELSE Returned([ingredients EXCEPT ![Len(ingredients)] = @ \o " " \o line])
    ELSE Returned(ingredients)

ExtractLine(sofar, line) ==
    IF sofar.raised # "" THEN sofar
    ELSE ExtractAction(sofar.value[1], line, from_line(line))

\* The loop over the first n lines.
RECURSIVE ExtractLoop(_, _)
ExtractLoop(lines, n) ==
    IF n = 0 THEN Returned(<<>>)
    ELSE ExtractLine(ExtractLoop(lines, n - 1), Lower(Strip(lines[n])))

ExtractLines(lines) == ExtractLoop(lines, Len(lines))

extract_ingredient_lines(ingredient_text) ==
    ExtractLines(SplitLines(replace_vulgar_fractions(ingredient_text)))

(***************************************************************************)
(* parse_ingredient.  re.match tries the alternatives of the pattern in    *)
(* order and backtracks: QuantityCandidates and UnitCandidates list, in    *)
(* the matcher's order, the ways the two optional prefix groups can match; *)
(* the match is the first combination after which the ingredient group     *)
(* [^,(]+ finds a character.                                               *)
(***************************************************************************)
\* "\s+" at position a where m blanks start, greedy: the positions after it,
\* longest run first.
SpacesOf(a, m) == [i \in 1..m |-> a + m - i + 1]
SpacesFrom(s, a) == SpacesOf(a, RunLen(s, a, IsSpace))

IsDigitOrDot(c) == IsDigit(c) \/ c = "."

\* The quantity s[1..e] followed by each "\s+".
QuantityThen(s, e, ps) ==
    [i \in 1..Len(ps) |-> [quantity |-> Some(SubSeq(s, 1, e)), pos |-> ps[i]]]

\* The ends of the quantity group: (?:\d+\s)?\d/\d with its whole number,
\* without it, then [\d\.]+ (which only its longest run lets "\s+" follow).
QuantityEnds(w, simple, r) ==
    (IF w > 0 THEN <<w + 3>> ELSE <<>>)
    \o (IF simple THEN <<3>> ELSE <<>>)
    \o (IF r >= 1 THEN <<r>> ELSE <<>>)

QuantityAfter(s, ends) ==
    Flatten([i \in 1..Len(ends) |-> QuantityThen(s, ends[i], SpacesFrom(s, ends[i] + 1))])
    \o <<[quantity |-> None, pos |-> 1]>>

\* (?:(?P<quantity>(?:(?:\d+\s)?\d/\d)|[\d\.]+)\s+)?
QuantityCandidates(s) ==
    QuantityAfter(s, QuantityEnds(WholeLenAt(s, 1), SimpleFractionAt(s, 1),
                                  RunLen(s, 1, IsDigitOrDot)))

\* The alternatives of the unit group, in the order the matcher tries them
\* (an optional plural ending is tried before its absence).
UnitWords ==
    << "tsp", "tbsp", "teaspoons", "teaspoon", "tablespoons", "tablespoon",
       "cups", "cup", "ounces", "ounce", "oz", "lbs", "lb", "g", "ml", "kg",
       "bunches", "bunch", "cans", "can", "cloves", "clove",
       "handfulspinches", "handfulspinch", "handfulpinches", "handfulpinch",
       "pounds", "pound", "pieces", "piece", "packages", "package" >>

UnitThen(word, ps) == [i \in 1..Len(ps) |-> [unit |-> Some(word), pos |-> ps[i]]]

\* word\.?\s+ at position p: with the period, then without it.
UnitWordAt(s, p, word) ==
    IF ~StartsWithAt(s, p, word) THEN <<>>
    ELSE UnitThen(word,
            (IF Char(s, p + Len(word)) = "." THEN SpacesFrom(s, p + Len(word) + 1)
             ELSE <<>>)
            \o SpacesFrom(s, p + Len(word)))

\* (?:(?P<unit>...)\.?\s+)? at position p
UnitCandidates(s, p) ==
    Flatten([i \in 1..Len(UnitWords) |-> UnitWordAt(s, p, UnitWords[i])])
    \o <<[unit |-> None, pos |-> p]>>

\* [^,] : the name group without the parenthesis in its class.
IsNameCharNoParen(c) == c # "" /\ c # ","

\* [^,(]
IsNameChar(c) == c # "" /\ c # "," /\ c # "("
\* [^)]
IsNoteChar(c) == c # "" /\ c # ")"

\* (?P<ingredient>[^,(]+): the length of the run at pos
IngredientLen(s, pos) == RunLen(s, pos, IsNameChar)

\* (?P<notes>[^)]+) at position a
NotesFrom(s, a) == Some(SubSeq(s, a, a + RunLen(s, a, IsNoteChar) - 1))

\* "\s*" at position a, greedy, gives blanks back until [^)]+ finds a
\* character: starts are the numbers of blanks that let it.
NotesAfter(s, a, starts) ==
    IF starts = {} THEN None ELSE NotesFrom(s, a + MaxOf(starts))

NotesSpaces(s, a, m) ==
    NotesAfter(s, a, {j \in 0..m : IsNoteChar(Char(s, a + j))})

\* (?:.\s*(?P<notes>[^)]+))? at position t: the notes group, None when the
\* optional group does not match.
NotesAt(s, t) ==
    IF Char(s, t) = "" \/ Char(s, t) = "\n" THEN None
    ELSE NotesSpaces(s, t + 1, RunLen(s, t + 1, IsSpace))

\* The quantity candidate q with each way the unit group can follow it.
PrefixThen(q, us) ==
    [j \in 1..Len(us) |->
        [quantity |-> q.quantity, unit |-> us[j].unit, pos |-> us[j].pos]]

PrefixesOf(s, qs) ==
    Flatten([i \in 1..Len(qs) |-> PrefixThen(qs[i], UnitCandidates(s, qs[i].pos))])

\* The two optional prefix groups together: every way they can match, in the
\* order the matcher reaches them.
PrefixCandidates(s) == PrefixesOf(s, QuantityCandidates(s))

\* The groups of the match that goes on after the prefix `first`, the
\* ingredient group being n characters long.
MatchGroups(s, first, n) ==
    [quantity |-> first.quantity,
     unit |-> first.unit,
     ingredient |-> SubSeq(s, first.pos, first.pos + n - 1),
     notes |-> NotesAt(s, first.pos + n)]

MatchAfter(s, first) == MatchGroups(s, first, IngredientLen(s, first.pos))

MatchAmong(s, prefixes, ok) ==
    IF ok = {} THEN None ELSE Some(MatchAfter(s, prefixes[MinOf(ok)]))

MatchPrefixes(s, prefixes) ==
    MatchAmong(s, prefixes,
               {k \in 1..Len(prefixes) : IsNameChar(Char(s, prefixes[k].pos))})

\* re.match(pattern, ingredient_line, re.VERBOSE): the groups, or None.
IngredientMatch(s) == MatchPrefixes(s, PrefixCandidates(s))

\* Ingredient(quantity=..., unit=..., name=..., note=...), quantity being the
\* result of to_fraction (its value None when the group did not match).
NoQuantity == [raised |-> "", value |-> None, stdout |-> <<>>]
MakeIngredient(m, quantity) ==
    IF quantity.raised # "" THEN quantity
    ELSE Returned(Some([quantity |-> quantity.value,
                        unit |-> m.unit,
                        name |-> Strip(m.ingredient),
                        note |-> m.notes]))

IngredientOf(ingredient_line, match) ==
    IF match # None
    THEN MakeIngredient(match[1],
                        IF match[1].quantity # None
                        THEN to_fraction(match[1].quantity[1])
                        ELSE NoQuantity)
    ELSE [Returned(None) EXCEPT
             !.stdout = <<"No match found for: " \o ingredient_line>>]

parse_ingredient(ingredient_line) ==
    IngredientOf(ingredient_line, IngredientMatch(ingredient_line))

(***************************************************************************)
(* parse_ingredients                                                       *)
(***************************************************************************)
\* One turn of the loop: the result so far and the result of parse_ingredient.
ParseLine(sofar, ingredient) ==
    IF sofar.raised # "" THEN sofar
    ELSE IF ingredient.raised # ""
    THEN [ingredient EXCEPT !.stdout = sofar.stdout \o @]
    ELSE [raised |-> "",
          value |-> Some(sofar.value[1] \o ingredient.value[1]),
          stdout |-> sofar.stdout \o ingredient.stdout]

\* The loop over the first n kept lines.
RECURSIVE ParseLoop(_, _)
ParseLoop(lines, n) ==
    IF n = 0 THEN Returned(<<>>)
    ELSE ParseLine(ParseLoop(lines, n - 1), parse_ingredient(lines[n]))

ParseLines(ingredient_lines) ==
    IF ingredient_lines.raised # "" THEN ingredient_lines
    ELSE IF ingredient_lines.value[1] = <<>> THEN Returned(<<>>)
    ELSE ParseLoop(ingredient_lines.value[1], Len(ingredient_lines.value[1]))

parse_ingredients(ingredient_text) ==
    ParseLines(extract_ingredient_lines(ingredient_text))

(***************************************************************************)
(* parse_text: re.finditer over the document, one Recipe per match.        *)
(***************************************************************************)
Weekdays ==
    <<"MONDAY", "TUESDAY", "WEDNESDAY", "THURSDAY", "FRIDAY", "SATURDAY", "SUNDAY">>

\* [A-Z\s]
IsTitleChar(c) == IsUpper(c) \/ IsSpace(c)

\* The first position >= from where word occurs in t (0 when there is none).
FirstOf(at) == IF at = {} THEN 0 ELSE MinOf(at)
Find(t, word, from) ==
    FirstOf({i \in from..(Len(t) - Len(word) + 1) : StartsWithAt(t, i, word)})

\* The first INSTRUCTIONS after the INGREDIENTS found at g.
InstructionsAfter(t, g) == IF g = 0 THEN 0 ELSE Find(t, "INSTRUCTIONS", g + 11)

\* The name ending at e, "\nSERVINGS" behind it: the first INGREDIENTS after
\* that, g, and the first INSTRUCTIONS after g, h.
BlockGroups(t, a, e, g, h) ==
    [name |-> Sub(t, a, e), ingredients |-> Sub(t, g + 11, h - 1), end |-> h + 12]

BlockEndingAt(t, a, e, g) == BlockGroups(t, a, e, g, InstructionsAfter(t, g))

\* The name starts at a; it is greedy and gives characters back until
\* "\nSERVINGS" follows it and the rest of the pattern matches.
BlockAmong(t, a, ends) ==
    IF ends = {} THEN None
    ELSE Some(BlockEndingAt(t, a, MaxOf(ends), Find(t, "INGREDIENTS", MaxOf(ends) + 10)))

BlockNamed(t, a, span) ==
    BlockAmong(t, a,
        {e \in a..(a + span - 1) :
            /\ StartsWithAt(t, e + 1, "\nSERVINGS")
            /\ InstructionsAfter(t, Find(t, "INGREDIENTS", e + 10)) # 0})

\* The pattern at position i, where the weekdays `days` stand before a line
\* break: [name, ingredients, end], or None.
BlockOfDay(t, i, days) ==
    IF days = {} THEN None
    ELSE BlockNamed(t, i + Len(Weekdays[MinOf(days)]) + 1,
                    RunLen(t, i + Len(Weekdays[MinOf(days)]) + 1, IsTitleChar))

BlockMatchAt(t, i) ==
    BlockOfDay(t, i, {d \in 1..Len(Weekdays) : StartsWithAt(t, i, Weekdays[d] \o "\n")})

\* re.sub(r'\s+', ' ', s)
RECURSIVE CollapseSpaces(_)
CollapseSpaces(s) ==
    IF s = "" THEN ""
    ELSE IF IsSpace(Char(s, 1))
    THEN " " \o CollapseSpaces(From(s, 1 + RunLen(s, 1, IsSpace)))
    ELSE Char(s, 1) \o CollapseSpaces(Tail(s))

\* recipes.append(Recipe(name=name, ingredients=ingredients))
AppendRecipe(sofar, name, ingredients) ==
    IF ingredients.raised # ""
    THEN [ingredients EXCEPT !.stdout = sofar.stdout \o @]
    ELSE [raised |-> "",
          value |-> Some(Append(sofar.value[1],
                                [name |-> name, ingredients |-> ingredients.value[1]])),
          stdout |-> sofar.stdout \o ingredients.stdout]

\* The loop over the matches found from position `from` on, sofar being the
\* recipes of the matches before.
RECURSIVE TextLoop(_, _, _)
TextMatch(t, sofar, match) ==
    TextLoop(t, match.end,
             AppendRecipe(sofar, CollapseSpaces(Strip(match.name)),
                          parse_ingredients(Strip(match.ingredients))))

TextMatches(t, sofar, at) ==
    IF at = {} THEN sofar ELSE TextMatch(t, sofar, BlockMatchAt(t, MinOf(at))[1])

TextLoop(t, from, sofar) ==
    IF sofar.raised # "" THEN sofar
    ELSE TextMatches(t, sofar, {i \in from..Len(t) : BlockMatchAt(t, i) # None})

\* parse_text without its savename: the recipes returned.
ParsedText(t) == TextLoop(t, 1, Returned(<<>>))

(***************************************************************************)
(* Documents: recipe blocks laid out the way the meal plan's pages are, a  *)
(* weekday line, the title line(s), the SERVINGS and INGREDIENTS markers,  *)
(* the ingredient lines and the INSTRUCTIONS marker with its text.         *)
(***************************************************************************)
RECURSIVE JoinLines(_)
JoinLines(lines) ==
    IF lines = <<>> THEN "" ELSE Head(lines) \o "\n" \o JoinLines(Tail(lines))

BlockText(b) ==
    b.weekday \o "\n" \o b.title \o "\nSERVINGS 4\nINGREDIENTS\n"
    \o JoinLines(b.lines) \o "INSTRUCTIONS\nCook and serve.\n"

RECURSIVE DocBody(_)
DocBody(bs) == IF bs = <<>> THEN "" ELSE BlockText(Head(bs)) \o DocBody(Tail(bs))

DocText(bs) == "WEEKLY MEAL PLAN\n" \o DocBody(bs)

\* The sequences of at most n elements of S.
RECURSIVE SeqsUpTo(_, _)
SeqsUpTo(S, n) ==
    IF n = 0 THEN {<<>>}
    ELSE SeqsUpTo(S, n - 1) \cup {Append(q, x) : q \in SeqsUpTo(S, n - 1), x \in S}

\* The documents of the program's runs: a plan of one block.
Block(lines) == [weekday |-> "MONDAY", title |-> "TACOS", lines |-> lines]
MainDocs ==
    {DocText(<<Block(<<"2 cups chopped onion, diced", "1/2 tsp salt">>)>>),
     DocText(<<Block(<<"1 1/2 cups flour", "salt to taste">>)>>),
     DocText(<<Block(<<"2 cups chopped onion, diced", "1/0 cup sugar">>)>>)}

ParsedDocs == [t \in MainDocs |-> ParsedText(t)]

(***************************************************************************)
(* The JSON cache.  A file is [kind, pages, data]: the text of a PDF's     *)
(* pages (what read_pdf returns) or the JSON value json.dump wrote; json's *)
(* own encoding of strings and null is not modelled further.               *)
(***************************************************************************)
Absent == [kind |-> "absent", pages |-> "", data |-> <<>>]
PdfFile(t) == [kind |-> "pdf", pages |-> t, data |-> <<>>]
JsonFile(d) == [kind |-> "json", pages |-> "", data |-> d]

\* str(Fraction) and str(None)
FractionStr(q) ==
    IF q = None THEN "None"
    ELSE IF q[1].den = 1 THEN IntToStr(q[1].num)
    ELSE IntToStr(q[1].num) \o "/" \o IntToStr(q[1].den)

\* Ingredient.to_dict
IngredientToDict(i) ==
    [quantity |-> FractionStr(i.quantity), unit |-> i.unit, name |-> i.name,
     note |-> i.note]

\* Ingredient.from_dict, quantity being the result of Fraction(data["quantity"])
IngredientWith(data, quantity) ==
    IF quantity.raised # "" THEN quantity
    ELSE Returned([quantity |-> quantity.value, unit |-> data.unit,
                   name |-> data.name, note |-> data.note])

IngredientFromDict(data) == IngredientWith(data, FractionOfString(data.quantity))

\* Recipe.to_dict
RecipeToDict(r) ==
    [name |-> r.name,
     ingredients |-> [k \in 1..Len(r.ingredients) |-> IngredientToDict(r.ingredients[k])]]

\* A list comprehension over calls: the first exception raised, or the list
\* of the values returned.
Comprehension(made, bad) ==
    IF bad # {} THEN made[MinOf(bad)]
    ELSE Returned([k \in 1..Len(made) |-> made[k].value[1]])

AllOf(made) == Comprehension(made, {k \in 1..Len(made) : made[k].raised # ""})

\* Recipe.from_dict, ingredients being the result of its list comprehension
RecipeWith(data, ingredients) ==
    IF ingredients.raised # "" THEN ingredients
    ELSE Returned([name |-> data.name, ingredients |-> ingredients.value[1]])

RecipeFromDict(data) ==
    RecipeWith(data, AllOf([k \in 1..Len(data.ingredients) |->
                               IngredientFromDict(data.ingredients[k])]))

\* dump_json: the files after the call.
dump_json(rs, filename, files) ==
    [files EXCEPT ![filename] = JsonFile([k \in 1..Len(rs) |-> RecipeToDict(rs[k])])]

\* read_json, data being the JSON value json.load returns
RecipesOf(data) == AllOf([k \in 1..Len(data) |-> RecipeFromDict(data[k])])
read_json(filename, files) == RecipesOf(files[filename].data)

(***************************************************************************)
(* main                                                                    *)
(***************************************************************************)
\* recipe_file.split('.')[:-1] joined by '': the text before the last '.',
\* without its other '.' characters ('' when the path has no '.').
RECURSIVE WithoutDots(_)
WithoutDots(s) ==
    IF s = "" THEN ""
    ELSE (IF Char(s, 1) = "." THEN "" ELSE Char(s, 1)) \o WithoutDots(Tail(s))

LastOf(at) == IF at = {} THEN 0 ELSE MaxOf(at)
LastDot(s) == LastOf({i \in 1..Len(s) : Char(s, i) = "."})

JsonName(recipe_file) ==
    WithoutDots(Sub(recipe_file, 1, LastDot(recipe_file) - 1)) \o ".json"

\* os.path.exists
Exists(files, path) == path \in DOMAIN files /\ files[path].kind # "absent"

\* read_pdf, then parse_text: the recipes of the pages (those of the model's
\* documents are worked out once, the pages being what decides them).
ParsedPages(t) == IF t \in DOMAIN ParsedDocs THEN ParsedDocs[t] ELSE ParsedText(t)

\* The record of a run of main: the arguments, the branch taken, the lines
\* printed, the recipes printed, the exception that ended the run ("" when
\* it returned), and the files before and after it.
RunRecord(args, recipe_file, json_name, branch, stdout, printed, raised, before, after) ==
    [args |-> args, recipe_file |-> recipe_file, json_name |-> json_name,
     branch |-> branch, stdout |-> stdout, printed |-> printed, raised |-> raised,
     before |-> before, after |-> after]

\* recipes = read_json(json_name), then the recipes are printed
MainCache(args, json_name, files, rs) ==
    RunRecord(args, args[2], json_name, "cache", <<>>,
              IF rs.raised = "" THEN rs.value[1] ELSE <<>>, rs.raised, files, files)

\* recipes = parse_text(recipe_text, savename=json_name), which dumps the
\* recipes it returns, then the recipes are printed
MainExtract(args, json_name, files, rs) ==
    RunRecord(args, args[2], json_name, "extract",
              <<"Reading PDF...", "Processing recipes...">> \o rs.stdout,
              IF rs.raised = "" THEN rs.value[1] ELSE <<>>, rs.raised, files,
              IF rs.raised = "" THEN dump_json(rs.value[1], json_name, files)
              ELSE files)

MainFile(args, reload_, json_name, files) ==
    IF ~reload_ /\ Exists(files, json_name)
    THEN MainCache(args, json_name, files, read_json(json_name, files))
    ELSE IF Exists(files, args[2])
    THEN MainExtract(args, json_name, files, ParsedPages(files[args[2]].pages))
    ELSE RunRecord(args, args[2], json_name, "notfound",
                   <<"Recipe file not found: " \o args[2]>>, <<>>, "", files, files)

\* main(args) started with the files `files` (args[2] is Python's args[1]).
MainRun(args, files) ==
    IF Len(args) < 2
    THEN RunRecord(args, "", "", "usage",
                   <<"Usage: python yumwiz.py <recipe_file> [--reload]">>, <<>>, "",
                   files, files)
    ELSE MainFile(args, \E k \in 1..Len(args) : args[k] = "--reload",
                  JsonName(args[2]), files)

(***************************************************************************)
(* The state machine.  Each specification below starts from every input of *)
(* a bounded set and applies the operations of one part of the program.    *)
(***************************************************************************)
NoRun == RunRecord(<<>>, "", "", "", <<>>, <<>>, "", <<>>, <<>>)

\* A call of a pure function on the text under test.
Call(name, result) ==
    /\ pc = "call"
    /\ pc' = name
    /\ ret' = result
    /\ UNCHANGED <<text, blocks, recipes, fs, run>>

(***************************************************************************)
(* The quantity parser on its own: every short string over an alphabet     *)
(* with digits, the two separators, a blank and a letter.                  *)
(***************************************************************************)
FracAlphabet == {"0", "1", "2", "/", ".", " ", "a"}
FractionInputs ==
    StringsUpTo(FracAlphabet, MaxFracLen)
    \cup {"1 1/2", "3/4", "2", "abc", "1.2.3", "1/0", "11/2", "12 3/4"}

InitFraction ==
    /\ pc = "call"
    /\ text \in FractionInputs
    /\ ret = NotCalled
    /\ blocks = <<>>
    /\ recipes = <<>>
    /\ fs = <<>>
    /\ run = NoRun

CallToFraction == Call("to_fraction", to_fraction(text))

SpecFraction == InitFraction /\ [][CallToFraction]_vars

(***************************************************************************)
(* The ingredient pipeline: lines put together from a quantity, a unit, a  *)
(* name and a note, every short string over the characters the pattern     *)
(* tells apart, and blocks of a few lines.                                 *)
(***************************************************************************)
QuantityTokens == {"2", "1/2", "1 1/2", "1.5"}

\* The unit vocabulary of the specification: singular or plural, with or
\* without a trailing period.
VocabularyWords ==
    {"teaspoon", "tablespoon", "cup", "ounce", "pound", "gram", "milliliter",
     "kilogram", "bunch", "can", "clove", "pinch", "piece", "package"}
Plural(w) == IF w \in {"bunch", "pinch"} THEN w \o "es" ELSE w \o "s"
VocabularyUnits == VocabularyWords \cup {Plural(w) : w \in VocabularyWords}
VocabularyTokens == VocabularyUnits \cup {u \o "." : u \in VocabularyUnits}

NameTokens == {"salt", "chopped onion"}
NoteTails == {"", ", diced", " (diced)"}

ComposedLines ==
    {q \o u \o n \o t :
        q \in {""} \cup {x \o " " : x \in QuantityTokens},
        u \in {""} \cup {x \o " " : x \in VocabularyTokens
                                       \cup {"tsp", "tbsp", "oz", "lb", "lbs", "g", "ml", "kg"}},
        n \in NameTokens,
        t \in NoteTails}

ClassifierLines ==
    {"get step by step instructions", "get step by step salt",
     "freshly cracked black pepper", "a handful of nuts", "olive oil",
     "salt to taste", "pinch of salt", "Salt", "  3 Eggs  ", "(pinch of salt)",
     "½ cup milk", "1 ½ cups flour, sifted", "Get Step By Step salt",
     "1/0 cup sugar", "1.2.3 cups flour", "2 cups chopped onion, diced"}

LineAlphabet == {"1", "/", " ", ",", "(", "g"}

BlockLines ==
    <<"2 cups chopped onion, diced", "salt to taste", "olive oil",
      "(pinch of salt)", "1/0 cup sugar", "  ¾ Cup Milk ">>

\* The texts of n lines of BlockLines (each line ended by a line break).
RECURSIVE BlocksOf(_)
BlocksOf(n) ==
    IF n = 0 THEN {""}
    ELSE {b \o BlockLines[k] \o "\n" : b \in BlocksOf(n - 1), k \in 1..Len(BlockLines)}

IngredientInputs ==
    StringsUpTo(LineAlphabet, MaxLineLen) \cup ComposedLines \cup ClassifierLines
    \cup UNION {BlocksOf(n) : n \in 2..MaxBlockLines}

InitIngredients ==
    /\ pc = "call"
    /\ text \in IngredientInputs
    /\ ret = NotCalled
    /\ blocks = <<>>
    /\ recipes = <<>>
    /\ fs = <<>>
    /\ run = NoRun

CallFromLine == Call("from_line", Returned(from_line(text)))
CallExtractIngredientLines ==
    Call("extract_ingredient_lines", extract_ingredient_lines(text))
CallParseIngredient == Call("parse_ingredient", parse_ingredient(text))
CallParseIngredients == Call("parse_ingredients", parse_ingredients(text))

NextIngredients ==
    \/ CallFromLine
    \/ CallExtractIngredientLines
    \/ CallParseIngredient
    \/ CallParseIngredients

SpecIngredients == InitIngredients /\ [][NextIngredients]_vars

(***************************************************************************)
(* parse_text on its own: documents of a few blocks.                       *)
(***************************************************************************)
DocLines ==
    {"2 cups chopped onion, diced", "salt to taste", "olive oil", "1/0 cup sugar"}
DocHeads ==
    {[weekday |-> "MONDAY", title |-> "TACOS"],
     [weekday |-> "SUNDAY", title |-> "BEEF\nSTEW"]}
DocBlocks ==
    {[weekday |-> h.weekday, title |-> h.title, lines |-> ls] :
        h \in DocHeads, ls \in SeqsUpTo(DocLines, MaxBlockLines)}

InitText ==
    /\ pc = "call"
    /\ blocks \in SeqsUpTo(DocBlocks, MaxBlocks)
    /\ text = DocText(blocks)
    /\ ret = NotCalled
    /\ recipes = <<>>
    /\ fs = <<>>
    /\ run = NoRun

CallParseText == Call("parse_text", ParsedText(text))

SpecText == InitText /\ [][CallParseText]_vars

(***************************************************************************)
(* The cache on its own: a recipe list is dumped, then read back.          *)
(***************************************************************************)
CacheFile == "week.json"

ModelIngredients ==
    {[quantity |-> q, unit |-> u, name |-> "salt", note |-> n] :
        q \in {None, Some(Frac(1, 2)), Some(Frac(3, 2)), Some(Frac(2, 1)), Some(Frac(10, 1))},
        u \in {None, Some("cups")},
        n \in {None, Some("diced")}}
ModelRecipes ==
    {[name |-> "TACOS", ingredients |-> is] :
        is \in SeqsUpTo(ModelIngredients, MaxIngredients)}

InitJson ==
    /\ pc = "call"
    /\ text = ""
    /\ ret = NotCalled
    /\ blocks = <<>>
    /\ recipes \in [{CacheFile} -> SeqsUpTo(ModelRecipes, MaxRecipes)]
    /\ fs = [p \in {CacheFile} |-> Absent]
    /\ run = NoRun

DumpJson ==
    /\ pc = "call"
    /\ pc' = "dump_json"
    /\ fs' = dump_json(recipes[CacheFile], CacheFile, fs)
    /\ UNCHANGED <<text, ret, blocks, recipes, run>>

ReadJson ==
    /\ pc = "dump_json"
    /\ pc' = "read_json"
    /\ ret' = read_json(CacheFile, fs)
    /\ UNCHANGED <<text, blocks, recipes, fs, run>>

SpecJson == InitJson /\ [][DumpJson \/ ReadJson]_vars

(***************************************************************************)
(* The program: runs of main over a file system in which the user puts     *)
(* and removes files.                                                      *)
(***************************************************************************)
Program == "yumwiz.py"
SourcePaths == {"week.pdf", "./week.pdf", "week.1.pdf"}
CachePaths == {JsonName(p) : p \in SourcePaths}
Paths == SourcePaths \cup CachePaths

ArgLists ==
    {<<Program>>}
    \cup {<<Program, p>> : p \in SourcePaths}
    \cup {<<Program, p, "--reload">> : p \in SourcePaths}

Init ==
    /\ pc = "start"
    /\ text = ""
    /\ ret = NotCalled
    /\ blocks = <<>>
    /\ recipes = [p \in CachePaths |-> <<>>]
    /\ fs = [p \in Paths |-> Absent]
    /\ run = NoRun

\* The user puts a PDF at a source path.
PutSource(p, t) ==
    /\ fs' = [fs EXCEPT ![p] = PdfFile(t)]
    /\ pc' = "put"
    /\ run' = NoRun
    /\ UNCHANGED <<text, ret, blocks, recipes>>

\* The user removes a file.
RemoveFile(p) ==
    /\ Exists(fs, p)
    /\ fs' = [fs EXCEPT ![p] = Absent]
    /\ pc' = "remove"
    /\ run' = NoRun
    /\ UNCHANGED <<text, ret, blocks, recipes>>

\* One run of main; recipes keeps what the run handed to dump_json.
MainDone(r) ==
    /\ run' = r
    /\ fs' = r.after
    /\ recipes' = IF r.branch = "extract" /\ r.raised = "" THEN [recipes EXCEPT ![r.json_name] = r.printed]
                  ELSE recipes
    /\ pc' = "main"
    /\ UNCHANGED <<text, ret, blocks>>
Main(args) == MainDone(MainRun(args, fs))

Next ==
    \/ \E p \in SourcePaths, t \in MainDocs : PutSource(p, t)
    \/ \E p \in Paths : RemoveFile(p)
    \/ \E args \in ArgLists : Main(args)

Spec == Init /\ [][Next]_vars

(***************************************************************************)
(* The claims.                                                             *)
(***************************************************************************)
HasReload(args) == \E k \in 1..Len(args) : args[k] = "--reload"
RecipeNames(rs) == [k \in 1..Len(rs) |-> rs[k].name]
DumpOf(rs) == JsonFile([k \in 1..Len(rs) |-> RecipeToDict(rs[k])])

\* C1: a run of main with a recipe file does exactly one of three things.
\* With the cache there and no --reload it loads the recipes of the cache
\* and writes nothing; otherwise, with the source file there, it extracts
\* the recipes again and overwrites the cache with them; otherwise it prints
\* the 'Recipe file not found' error, prints no recipe and leaves the cache
\* as it was.
C1_MainDoesOneOfThree ==
    pc = "main" /\ Len(run.args) >= 2 =>
        IF Exists(run.before, run.json_name) /\ ~HasReload(run.args)
        THEN /\ run.raised = ""
             /\ RecipeNames(run.printed) = RecipeNames(run.before[run.json_name].data)
             /\ fs = run.before
        ELSE IF Exists(run.before, run.recipe_file)
        THEN /\ run.raised = ""
             /\ fs = [run.before EXCEPT ![run.json_name] = DumpOf(run.printed)]
        ELSE /\ run.stdout = <<"Recipe file not found: " \o run.recipe_file>>
             /\ run.printed = <<>>
             /\ fs = run.before

SameIngredient(read, written) ==
    /\ read.unit = written.unit
    /\ read.name = written.name
    /\ read.note = written.note
    /\ written.quantity # None => read.quantity = written.quantity

SameRecipe(read, written) ==
    /\ read.name = written.name
    /\ Len(read.ingredients) = Len(written.ingredients)
    /\ \A j \in 1..Len(written.ingredients) :
           SameIngredient(read.ingredients[j], written.ingredients[j])

\* C2: read_json after dump_json succeeds and returns recipes equal to the
\* ones written in name, ingredient order, unit, name and note, and in
\* quantity wherever a quantity is present; an absent quantity is written as
\* the string "None" and reading it back does not fail.
C2_RoundTrip ==
    pc = "read_json" =>
        /\ \A k \in 1..Len(fs[CacheFile].data) :
               \A j \in 1..Len(recipes[CacheFile][k].ingredients) :
                   recipes[CacheFile][k].ingredients[j].quantity = None
                   => fs[CacheFile].data[k].ingredients[j].quantity = "None"
        /\ ret.raised = ""
        /\ Len(ret.value[1]) = Len(recipes[CacheFile])
        /\ \A k \in 1..Len(recipes[CacheFile]) :
               SameRecipe(ret.value[1][k], recipes[CacheFile][k])

\* The ingredient a kept line yields: none when it cannot be parsed.
IngredientOfLine(line) ==
    IF parse_ingredient(line).raised = "" THEN parse_ingredient(line).value[1] ELSE <<>>
IngredientsOfLines(lines) ==
    Flatten([k \in 1..Len(lines) |-> IngredientOfLine(lines[k])])

\* C3: parse_ingredients runs to completion on every ingredient block: a kept
\* line that cannot be parsed into an ingredient (also one whose number
\* cannot be converted, "1.2.3" or "1/0") yields no ingredient and is
\* skipped, and every later line is still parsed.
C3_UnparsableLineIsSkipped ==
    pc = "parse_ingredients" =>
        /\ ret.raised = ""
        /\ ret.value[1] = IngredientsOfLines(extract_ingredient_lines(text).value[1])

KeepKeywords == {"pinch", "handful", "salt", "pepper"}
ClaimedAction(line) ==
    IF IsDigit(Char(line, 1)) THEN "KEEP"
    ELSE IF StartsWith(line, "get step by step") THEN "IGNORE"
    ELSE IF \E w \in KeepKeywords : Contains(line, w) THEN "KEEP"
    ELSE "IGNORE"
IsClaimedKept(line) == ClaimedAction(line) = "KEEP"
TrimmedLines(lines) == [k \in 1..Len(lines) |-> Lower(Strip(lines[k]))]
ClaimedKeptLines(t) ==
    SelectSeq(TrimmedLines(SplitLines(replace_vulgar_fractions(t))), IsClaimedKept)

WithoutPeriod(u) == IF Char(u, Len(u)) = "." THEN Sub(u, 1, Len(u) - 1) ELSE u

\* C5: for a line made of a quantity, whitespace, a unit token of the
\* vocabulary (singular or plural, with or without a trailing period),
\* whitespace and a name, parse_ingredient returns the token as the unit and
\* the text after it as the name.
C5_UnitOfVocabulary ==
    pc = "parse_ingredient" =>
        \A q \in QuantityTokens, u \in VocabularyTokens, n \in NameTokens :
            text = q \o " " \o u \o " " \o n =>
                /\ ret.raised = ""
                /\ ret.value[1] # None
                /\ ret.value[1][1].unit \in {Some(u), Some(WithoutPeriod(u))}
                /\ ret.value[1][1].name = n

\* "n/d" of one digit each, and the same behind a whole number and a blank.
AllDigits(s) == s # "" /\ \A i \in 1..Len(s) : IsDigit(Char(s, i))
IsSimpleForm(s) == Len(s) = 3 /\ SimpleFractionAt(s, 1)
IsMixedForm(s) ==
    /\ Len(s) >= 5
    /\ AllDigits(Sub(s, 1, Len(s) - 4))
    /\ IsSpace(Char(s, Len(s) - 3))
    /\ SimpleFractionAt(s, Len(s) - 2)
\* A plain decimal or integer literal (blanks around it let be).
IsDecimalForm(s) ==
    \E k \in 0..Len(Strip(s)) :
        /\ \A i \in 1..k : IsDigit(Char(Strip(s), i))
        /\ \/ k = Len(Strip(s)) /\ k > 0
           \/ /\ Char(Strip(s), k + 1) = "."
              /\ Len(Strip(s)) > 1
              /\ \A i \in (k + 2)..Len(Strip(s)) : IsDigit(Char(Strip(s), i))
ClaimedMixed(s) ==
    MixedValue(IF IsMixedForm(s) THEN StrToInt(Sub(s, 1, Len(s) - 4)) ELSE 0,
               DigitVal(Char(s, Len(s) - 2)), DigitVal(Char(s, Len(s))))

\* C6: to_fraction returns whole + n/d for "n/d" with an optional whole
\* number and a blank before it, the exact value of a plain decimal or
\* integer literal, and fails for every string that is not wholly of one of
\* the two forms.
C6_ToFractionForms ==
    pc = "to_fraction" =>
        IF IsSimpleForm(text) \/ IsMixedForm(text) THEN ret = ClaimedMixed(text)
        ELSE IF IsDecimalForm(text)
        THEN /\ ret.raised = ""
             /\ AllDigits(text) => ret = Returned(Frac(StrToInt(text), 1))
        ELSE ret.raised # ""

\* The name that starts at position i: the text up to the next comma or
\* opening parenthesis (or the end of the line), trimmed.
ClaimedNameAt(s, i) == Strip(Sub(s, i, i + RunLen(s, i, IsNameChar) - 1))
IsQuantityChar(c) == IsDigit(c) \/ c = "." \/ c = "/" \/ IsSpace(c)

\* p is a quantity token and the whitespace after it, the token being worth q
\* (p is empty when there is no quantity).
IsQuantityPrefix(p, q) ==
    IF q = None THEN p = ""
    ELSE /\ IsSpace(Char(p, Len(p)))
         /\ RStrip(p) # ""
         /\ \A i \in 1..Len(p) : IsQuantityChar(Char(p, i))
         /\ to_fraction(RStrip(p)) = Returned(q[1])

\* p is the unit u, an optional period and the whitespace after it (p is
\* empty when there is no unit).
IsUnitPrefix(p, u) ==
    IF u = None THEN p = ""
    ELSE /\ IsSpace(Char(p, Len(p)))
         /\ RStrip(p) \in {u[1], u[1] \o "."}
         /\ \E k \in 1..Len(UnitWords) : UnitWords[k] = u[1]

\* Position i is right behind the quantity and unit prefix of the line.
IsAfterPrefix(s, i, ing) ==
    \E a \in 0..(i - 1) :
        /\ IsQuantityPrefix(Sub(s, 1, a), ing.quantity)
        /\ IsUnitPrefix(Sub(s, a + 1, i - 1), ing.unit)

\* The line starts with neither a number nor a unit word.
HasNoPrefix(s) ==
    /\ ~IsDigitOrDot(Char(s, 1))
    /\ \A k \in 1..Len(UnitWords) : ~StartsWith(s, UnitWords[k])

\* C7: the name parse_ingredient returns holds no comma and no opening
\* parenthesis and is the trimmed text that runs from right behind the
\* quantity and unit prefix to the first comma or opening parenthesis or the
\* end of the line; a line with no leading quantity and no unit prefix is
\* returned with quantity None, unit None and that run from the start of the
\* line as its name.
C7_NameIsTheRun ==
    pc = "parse_ingredient" /\ ret.raised = "" /\ ret.value[1] # None =>
        /\ ~Contains(ret.value[1][1].name, ",")
        /\ ~Contains(ret.value[1][1].name, "(")
        /\ \E i \in 1..Len(text) :
               /\ IsAfterPrefix(text, i, ret.value[1][1])
               /\ ret.value[1][1].name = ClaimedNameAt(text, i)
        /\ HasNoPrefix(text) =>
               /\ ret.value[1][1].quantity = None
               /\ ret.value[1][1].unit = None
               /\ ret.value[1][1].name = ClaimedNameAt(text, 1)

\* C7's case: a line with a quantity, a unit, a name and a note behind an
\* opening parenthesis.
C7_Witness ==
    /\ pc = "parse_ingredient"
    /\ ret.raised = ""
    /\ ret.value[1] # None
    /\ ret.value[1][1].quantity # None
    /\ ret.value[1][1].unit # None
    /\ ret.value[1][1].name = "chopped onion"
    /\ Contains(text, "(")

\* The ingredients of a block's lines: of each line that is kept and parsed.
IngredientsOfBlock(lines) ==
    IngredientsOfLines(SelectSeq(TrimmedLines(lines), IsClaimedKept))

\* C8: for a text of n recipe blocks parse_text returns n recipes in text
\* order, the i-th with the title of the i-th block (its lines joined by one
\* blank) and the ingredients of the valid ingredient lines of the i-th
\* block.
C8_OneRecipePerBlock ==
    pc = "parse_text" =>
        /\ ret.raised = ""
        /\ Len(ret.value[1]) = Len(blocks)
        /\ \A i \in 1..Len(blocks) :
               /\ ret.value[1][i].name = CollapseSpaces(blocks[i].title)
               /\ ret.value[1][i].ingredients = IngredientsOfBlock(blocks[i].lines)

\* The path with the text behind its last period replaced by "json".
WithJsonExtension(p) == Sub(p, 1, LastDot(p)) \o "json"

\* C9: for every recipe file path given to main the cache path is the path
\* with its final extension replaced by .json, every other character of the
\* path kept.
C9_CachePath ==
    pc = "main" /\ Len(run.args) >= 2 =>
        run.json_name = WithJsonExtension(run.recipe_file)

\* C10: once a run of main has extracted the recipes and written the cache,
\* a later run without --reload completes and prints the recipes that run
\* extracted.
C10_LaterRunPrintsTheSame ==
    pc = "main" /\ run.branch = "cache" =>
        /\ run.raised = ""
        /\ run.printed = recipes[run.json_name]
====
